---- MODULE Spec2Model ----
(***************************************************************************)
(* Model of BMI_web.py: the threshold-table loader                         *)
(* (load_thresholds_from_excel), the classifier (check_weight_status) and  *)
(* the Streamlit page (main).                                              *)
(*                                                                         *)
(* Numbers.  A Python float is modelled as an exact rational <<num, den>>  *)
(* with den > 0; <<0, 0>> is NaN (what pandas yields for an empty cell).   *)
(* Ages, heights and weights are given in hundredths (<<747, 100>> is      *)
(* 7.47), thresholds in tenths (<<190, 10>> is 19.0).  Comparisons follow  *)
(* IEEE: any comparison with NaN is false.  The one-decimal formatting     *)
(* f"{x:.1f}" is modelled on the binary double nearest to the decimal      *)
(* value, so that x.x5 ties fall as they do in Python.                     *)
(*                                                                         *)
(* Strings.  The source's Chinese labels are written in ASCII:             *)
(*   '男' -> "male", '女' -> "female", '超重' -> "overweight",             *)
(*   '肥胖' -> "obese", '正常' -> "normal"; the two error messages are     *)
(*   "age_out_of_range" and "thresholds_not_found".                        *)
(***************************************************************************)
EXTENDS Integers, Sequences, FiniteSets, TLC

VARIABLES pc, file, BMI_THRESHOLDS, request, result, submitted, display

vars == <<pc, file, BMI_THRESHOLDS, request, result, submitted, display>>

(***************************************************************************)
(* Bounds                                                                  *)
(***************************************************************************)
MaxRows == 2

(***************************************************************************)
(* Floats                                                                  *)
(***************************************************************************)
NaN == <<0, 0>>

None == <<>>

IsNaN(x) == x[2] = 0

Lt(a, b) == ~IsNaN(a) /\ ~IsNaN(b) /\ a[1] * b[2] < b[1] * a[2]

Le(a, b) == ~IsNaN(a) /\ ~IsNaN(b) /\ a[1] * b[2] <= b[1] * a[2]

FloatSquare(a) == <<a[1] * a[1], a[2] * a[2]>>

FloatDiv(a, b) == <<a[1] * b[2], a[2] * b[1]>>

(***************************************************************************)
(* f"{x:.1f}"                                                              *)
(***************************************************************************)
RECURSIVE Pow2Mod100(_)
Pow2Mod100(k) == IF k = 0 THEN 1 ELSE (2 * Pow2Mod100(k - 1)) % 100

\* k such that (a/100) * 2^k lies in [2^52, 2^53): the scaling of the
\* 53-bit significand of the double nearest to a/100, for 1.00 <= a/100 < 32.
BinaryExponent(a) ==
    IF a < 200 THEN 52
    ELSE IF a < 400 THEN 51
    ELSE IF a < 800 THEN 50
    ELSE IF a < 1600 THEN 49
    ELSE 48

\* The remainder of a * 2^k modulo 100 tells on which side of a/100 the
\* nearest double lies: 0 exact, below 50 the double is smaller, above 50 larger.
DoubleResidue(a) == (a * Pow2Mod100(BinaryExponent(a))) % 100

\* tenths obtained by correctly rounding the double nearest to a/100
RoundToTenths(a) ==
    LET q == a \div 10
        r == a % 10
    IN  IF r < 5 THEN q
        ELSE IF r > 5 THEN q + 1
        ELSE IF DoubleResidue(a) = 0 THEN (IF q % 2 = 0 THEN q ELSE q + 1)
        ELSE IF DoubleResidue(a) < 50 THEN q
        ELSE q + 1

format_1f(x) ==
    IF IsNaN(x) THEN "nan"
    ELSE LET t == RoundToTenths(x[1])
         IN  ToString(t \div 10) \o "." \o ToString(t % 10)

(***************************************************************************)
(* load_thresholds_from_excel                                              *)
(***************************************************************************)
required_columns ==
    {"age", "male_overweight", "male_obese", "female_overweight", "female_obese"}

NoTable(err) == [none |-> TRUE, dict |-> <<>>, error |-> err]

\* thresholds[age_key] = {...}: first-write-wins variant
dict_setdefault(d, k, v) ==
    [x \in DOMAIN d \cup {k} |-> IF x \in DOMAIN d THEN d[x] ELSE v]

\* thresholds[age_key] = {...}
dict_set(d, k, v) ==
    [x \in DOMAIN d \cup {k} |-> IF x = k THEN v ELSE d[x]]

row_entry(row) ==
    [male   |-> [overweight |-> row["male_overweight"],
                 obese      |-> row["male_obese"]],
     female |-> [overweight |-> row["female_overweight"],
                 obese      |-> row["female_obese"]]]

RECURSIVE iterrows(_, _, _)
iterrows(thresholds, rows, index) ==
    IF index > Len(rows) THEN thresholds
    ELSE LET row == rows[index]
             age_key == format_1f(row["age"])
         IN  iterrows(dict_set(thresholds, age_key, row_entry(row)), rows, index + 1)

load_thresholds_from_excel(f) ==
    IF f.state = "missing" THEN NoTable("file_not_found")
    ELSE IF f.state = "unreadable" THEN NoTable("read_error")
    ELSE IF ~(\A col \in required_columns : col \in f.columns)
         THEN NoTable("missing_columns")
    ELSE [none |-> FALSE, dict |-> iterrows(<<>>, f.rows, 1), error |-> ""]

(***************************************************************************)
(* check_weight_status                                                     *)
(***************************************************************************)
StatusLabels == {"normal", "overweight", "obese"}

ErrorMessages == {"age_out_of_range", "thresholds_not_found"}

\* 2.0 <= round(age, 1) <= 18.0: range test on the rounded age
AgeInRangeRounded(age) ==
    Le(<<20, 10>>, <<RoundToTenths(age[1]), 10>>)
        /\ Le(<<RoundToTenths(age[1]), 10>>, <<180, 10>>)

\* 2.0 < age < 18.0: range test with open ends
AgeInRangeStrict(age) == Lt(<<20, 10>>, age) /\ Lt(age, <<180, 10>>)

\* 2.0 <= age <= 18.0
AgeInRange(age) == Le(<<20, 10>>, age) /\ Le(age, <<180, 10>>)

\* return msg, bmi, None, None
ErrorResultWithBmi(msg) ==
    [kind |-> "return", status |-> msg, bmi |-> <<0, 1>>,
     overweight |-> None, obese |-> None]

\* return msg, None, None, None
ErrorResult(msg) ==
    [kind |-> "return", status |-> msg, bmi |-> None,
     overweight |-> None, obese |-> None]

Raised(exc) ==
    [kind |-> "raise", status |-> exc, bmi |-> None,
     overweight |-> None, obese |-> None]

result_status(bmi, overweight_limit, obese_limit) ==
    IF Lt(bmi, overweight_limit) THEN "normal"
    ELSE IF Le(overweight_limit, bmi) /\ Lt(bmi, obese_limit) THEN "overweight"
    ELSE "obese"

check_weight_status(age, height_m, weight_kg, gender, thresholds) ==
    IF ~AgeInRange(age) THEN ErrorResult("age_out_of_range")
    ELSE IF FloatSquare(height_m)[1] = 0 THEN Raised("ZeroDivisionError")
    ELSE LET bmi == FloatDiv(weight_kg, FloatSquare(height_m))
             age_key == format_1f(age)
         IN  IF age_key \notin DOMAIN thresholds
             THEN ErrorResult("thresholds_not_found")
             ELSE LET limits == thresholds[age_key][gender]
                      overweight_limit == limits.overweight
                      obese_limit == limits.obese
                  IN  [kind |-> "return",
                       status |-> result_status(bmi, overweight_limit, obese_limit),
                       bmi |-> bmi,
                       overweight |-> overweight_limit,
                       obese |-> obese_limit]

NoResult ==
    [kind |-> "none", status |-> "", bmi |-> None,
     overweight |-> None, obese |-> None]

(***************************************************************************)
(* Inputs                                                                  *)
(***************************************************************************)
Genders == {"male", "female"}

Row(age, mo, mb, fo, fb) ==
    [col \in required_columns |->
        CASE col = "age" -> age
          [] col = "male_overweight" -> mo
          [] col = "male_obese" -> mb
          [] col = "female_overweight" -> fo
          [] col = "female_obese" -> fb]

RowAges == {<<200, 100>>, <<747, 100>>, <<1000, 100>>, <<1004, 100>>, <<1800, 100>>}

RowDomain ==
    {Row(a, <<190, 10>>, <<215, 10>>, <<185, 10>>, <<210, 10>>) : a \in RowAges}
    \cup {Row(a, <<170, 10>>, <<200, 10>>, <<165, 10>>, <<195, 10>>) :
             a \in {<<1000, 100>>, <<1004, 100>>}}
    \cup {Row(<<1000, 100>>, <<215, 10>>, <<190, 10>>, <<185, 10>>, <<210, 10>>),
          Row(<<1000, 100>>, NaN, <<215, 10>>, <<185, 10>>, <<210, 10>>),
          Row(NaN, <<190, 10>>, <<215, 10>>, <<185, 10>>, <<210, 10>>)}

RECURSIVE RowSeqs(_)
RowSeqs(n) ==
    IF n = 0 THEN {<<>>}
    ELSE LET shorter == RowSeqs(n - 1)
         IN  shorter \cup {Append(s, r) : s \in {t \in shorter : Len(t) = n - 1},
                                          r \in RowDomain}

ColumnSets == {required_columns} \cup {required_columns \ {c} : c \in required_columns}

Files ==
    {[state |-> "missing", columns |-> {}, rows |-> <<>>],
     [state |-> "unreadable", columns |-> {}, rows |-> <<>>]}
    \cup {[state |-> "ok", columns |-> required_columns, rows |-> rs] :
             rs \in RowSeqs(MaxRows)}
    \cup {[state |-> "ok", columns |-> cs, rows |-> rs] :
             cs \in ColumnSets \ {required_columns}, rs \in RowSeqs(1)}

Ages == {<<196, 100>>, <<200, 100>>, <<744, 100>>, <<747, 100>>,
         <<1000, 100>>, <<1800, 100>>, <<1804, 100>>}

Heights == {<<-140, 100>>, <<0, 100>>, <<140, 100>>}

Weights == {<<0, 100>>, <<3500, 100>>, <<3724, 100>>, <<4214, 100>>, <<4500, 100>>}

Subjects ==
    [age : Ages, height_m : Heights, weight_kg : Weights, gender : Genders]

NoRequest ==
    [age |-> NaN, height_m |-> NaN, weight_kg |-> NaN, gender |-> "male"]

\* st.number_input clamps its value to [min_value, max_value]
WidgetSubjects ==
    {s \in Subjects : /\ Le(<<20, 10>>, s.age) /\ Le(s.age, <<180, 10>>)
                      /\ Le(<<5, 10>>, s.height_m) /\ Le(s.height_m, <<25, 10>>)
                      /\ Le(<<10, 1>>, s.weight_kg) /\ Le(s.weight_kg, <<200, 1>>)}

(***************************************************************************)
(* Core: build the table once, then classify requests                      *)
(***************************************************************************)
Init ==
    /\ pc = "source"
    /\ file \in Files
    /\ BMI_THRESHOLDS = NoTable("")
    /\ request = NoRequest
    /\ result = NoResult
    /\ submitted = FALSE
    /\ display = "blank"

Load ==
    /\ pc = "source"
    /\ BMI_THRESHOLDS' = load_thresholds_from_excel(file)
    /\ pc' = "loaded"
    /\ UNCHANGED <<file, request, result, submitted, display>>

Classify(subject) ==
    /\ pc = "loaded"
    /\ ~BMI_THRESHOLDS.none
    /\ request' = subject
    /\ result' = check_weight_status(subject.age, subject.height_m, subject.weight_kg,
                                     subject.gender, BMI_THRESHOLDS.dict)
    /\ pc' = "classified"
    /\ UNCHANGED <<file, BMI_THRESHOLDS, submitted, display>>

Next ==
    \/ Load
    \/ \E subject \in Subjects : Classify(subject)

Spec == Init /\ [][Next]_vars

(***************************************************************************)
(* main: one run of the Streamlit script                                   *)
(***************************************************************************)
\* a page that never halts on a missing table
NeverStop(t) == FALSE

\* if BMI_THRESHOLDS is None: st.stop()
ShouldStop(t) == t.none

\* if bmi is not None
bmi_is_not_None(r) == r.bmi # None

MainInit ==
    /\ pc = "main_start"
    /\ file \in Files
    /\ BMI_THRESHOLDS = NoTable("")
    /\ request = NoRequest
    /\ result = NoResult
    /\ submitted = FALSE
    /\ display = "blank"

MainLoad ==
    /\ pc = "main_start"
    /\ BMI_THRESHOLDS' = load_thresholds_from_excel(file)
    /\ display' = IF BMI_THRESHOLDS'.none THEN "load_error" ELSE "blank"
    /\ pc' = "main_title"
    /\ UNCHANGED <<file, request, result, submitted>>

MainStop ==
    /\ pc = "main_title"
    /\ pc' = IF ShouldStop(BMI_THRESHOLDS) THEN "stopped" ELSE "main_form"
    /\ UNCHANGED <<file, BMI_THRESHOLDS, request, result, submitted, display>>

MainForm(inputs, button) ==
    /\ pc = "main_form"
    /\ request' = inputs
    /\ submitted' = button
    /\ pc' = "main_submit"
    /\ UNCHANGED <<file, BMI_THRESHOLDS, result, display>>

MainEvaluate ==
    /\ pc = "main_submit"
    /\ pc' = "done"
    /\ IF ~submitted
       THEN UNCHANGED <<result, display>>
       ELSE IF ~(Lt(<<0, 1>>, request.height_m) /\ Lt(<<0, 1>>, request.weight_kg))
            THEN /\ display' = "invalid_measurement"
                 /\ UNCHANGED result
            ELSE /\ result' = check_weight_status(request.age, request.height_m,
                                                  request.weight_kg, request.gender,
                                                  BMI_THRESHOLDS.dict)
                 /\ display' = IF result'.kind = "raise" THEN "exception"
                                ELSE IF bmi_is_not_None(result') THEN "classification"
                                ELSE "error"
    /\ UNCHANGED <<file, BMI_THRESHOLDS, request, submitted>>

MainNext ==
    \/ MainLoad
    \/ MainStop
    \/ \E inputs \in WidgetSubjects, button \in BOOLEAN : MainForm(inputs, button)
    \/ MainEvaluate

SpecMain == MainInit /\ [][MainNext]_vars

(***************************************************************************)
(* The module used either way: imported for its two functions, or run as   *)
(* the page                                                                *)
(***************************************************************************)
AllInit == Init \/ MainInit

AllNext == Next \/ MainNext

SpecAll == AllInit /\ [][AllNext]_vars

(***************************************************************************)
(* Properties                                                              *)
(***************************************************************************)
Called == result.kind # "none"

Loaded == pc \in {"loaded", "classified"}

RequestAgeInRange == 200 <= request.age[1] /\ request.age[1] <= 1800

RequestKey == format_1f(request.age)

MeasurementsPositive == request.height_m[1] > 0 /\ request.weight_kg[1] > 0

RowKeys == {format_1f(file.rows[i]["age"]) : i \in 1..Len(file.rows)}

RowsOfKey(k) == {i \in 1..Len(file.rows) : format_1f(file.rows[i]["age"]) = k}

LastRowOfKey(k) == CHOOSE i \in RowsOfKey(k) : \A j \in RowsOfKey(k) : j <= i

RowLimits(i, gender) ==
    IF gender = "male"
    THEN <<file.rows[i]["male_overweight"], file.rows[i]["male_obese"]>>
    ELSE <<file.rows[i]["female_overweight"], file.rows[i]["female_obese"]>>

IsErrorValue(msg) ==
    /\ result.kind = "return"
    /\ result.status = msg
    /\ result.bmi = None
    /\ result.overweight = None
    /\ result.obese = None

\* C1: whenever check_weight_status has been called with height <= 0 or
\* weight <= 0, it has returned an InvalidMeasurement error value (no fault,
\* no classification), whatever the age, the sex and the table.
C1_InvalidMeasurement ==
    (Called /\ (request.height_m[1] <= 0 \/ request.weight_kg[1] <= 0))
        => IsErrorValue("invalid_measurement")

\* C2: whenever check_weight_status has been called with an age below 2.0 or
\* above 18.0, it has returned the age-out-of-range error with no BMI and no
\* thresholds, for every height, weight, sex and table.
C2_AgeOutOfRange ==
    (Called /\ ~RequestAgeInRange) => IsErrorValue("age_out_of_range")

\* an out-of-range age whose one-decimal key is in the table, a zero height
C2_Witness ==
    /\ Called
    /\ ~RequestAgeInRange
    /\ RequestKey \in DOMAIN BMI_THRESHOLDS.dict
    /\ request.height_m[1] = 0
    /\ result.status = "age_out_of_range"

\* C3: every classification is NORMAL when bmi < overweight threshold,
\* OVERWEIGHT when overweight threshold <= bmi < obese threshold, and OBESE
\* when bmi >= obese threshold, for the thresholds that were looked up.
C3_ClassificationRule ==
    (Called /\ result.status \in StatusLabels) =>
        /\ Lt(result.bmi, result.overweight) => result.status = "normal"
        /\ (Le(result.overweight, result.bmi) /\ Lt(result.bmi, result.obese))
               => result.status = "overweight"
        /\ Le(result.obese, result.bmi) => result.status = "obese"

\* C4: for an in-range age the lookup is by the exact one-decimal key: the
\* thresholds used are those of a source row with the request's key, and when
\* no row has that key the call returns the thresholds-not-found error.
C4_ExactKeyLookup ==
    (Called /\ RequestAgeInRange) =>
        IF RowsOfKey(RequestKey) = {}
        THEN IsErrorValue("thresholds_not_found")
        ELSE /\ result.kind = "return"
             /\ result.status \in StatusLabels
             /\ \E i \in RowsOfKey(RequestKey) :
                    <<result.overweight, result.obese>> = RowLimits(i, request.gender)

\* C5: every entry of a table returned by the loader has its overweight
\* threshold strictly below its obese threshold, for both sexes.
C5_ThresholdOrder ==
    (Loaded /\ ~BMI_THRESHOLDS.none) =>
        \A k \in DOMAIN BMI_THRESHOLDS.dict : \A g \in Genders :
            Lt(BMI_THRESHOLDS.dict[k][g].overweight, BMI_THRESHOLDS.dict[k][g].obese)

\* C6: when a required column is absent or a row lacks a value in one of the
\* five required fields, the loader returns no table.
C6_SchemaError ==
    (Loaded /\ file.state = "ok"
        /\ (\/ ~(required_columns \subseteq file.columns)
            \/ \E i \in 1..Len(file.rows) : \E col \in required_columns :
                   IsNaN(file.rows[i][col])))
        => (BMI_THRESHOLDS.none /\ DOMAIN BMI_THRESHOLDS.dict = {})

\* C7: the table returned by the loader has exactly the one-decimal keys of
\* the source rows, each mapped to the thresholds of the last row with that key.
C7_LastWriteWins ==
    (Loaded /\ ~BMI_THRESHOLDS.none) =>
        /\ DOMAIN BMI_THRESHOLDS.dict = RowKeys
        /\ \A k \in RowKeys : \A g \in Genders :
               <<BMI_THRESHOLDS.dict[k][g].overweight, BMI_THRESHOLDS.dict[k][g].obese>>
                   = RowLimits(LastRowOfKey(k), g)

\* a table built from two rows with the same key and different thresholds
C7_Witness ==
    /\ Loaded
    /\ ~BMI_THRESHOLDS.none
    /\ \E k \in RowKeys : \E i \in RowsOfKey(k) : \E g \in Genders :
           i # LastRowOfKey(k) /\ RowLimits(i, g) # RowLimits(LastRowOfKey(k), g)

C9_HaltAfterFailedLoad ==
    (pc # "main_start"
        /\ (file.state # "ok" \/ ~(required_columns \subseteq file.columns))) =>
        /\ BMI_THRESHOLDS.none
        /\ pc \in {"main_title", "stopped"}
        /\ ~Called
        /\ display = "load_error"

\* main has stopped after a failed load
C9_Witness ==
    /\ pc = "stopped"
    /\ file.state = "ok"
    /\ ~(required_columns \subseteq file.columns)
    /\ BMI_THRESHOLDS.none

\* C10: a value returned by check_weight_status is either a status label with
\* BMI and both thresholds present, or an error message with BMI and both
\* thresholds None; the test 'bmi is not None' holds exactly of the former,
\* so main displays a classification only for a status label and the error
\* only for an error message.
C10_ResultShape ==
    result.kind = "return" =>
        /\ \/ /\ result.status \in StatusLabels
              /\ result.bmi # None
              /\ result.overweight # None
              /\ result.obese # None
           \/ /\ result.status \in ErrorMessages
              /\ result.bmi = None
              /\ result.overweight = None
              /\ result.obese = None
        /\ bmi_is_not_None(result) <=> result.status \in StatusLabels
        /\ display = "classification" => result.status \in StatusLabels
        /\ display = "error" => result.status \in ErrorMessages
        /\ pc = "done" /\ submitted =>
               display = IF result.status \in StatusLabels THEN "classification"
                         ELSE "error"

\* main has displayed the error returned for a key absent from the table
C10_Witness ==
    /\ pc = "done"
    /\ result.kind = "return"
    /\ result.status = "thresholds_not_found"
    /\ ~bmi_is_not_None(result)
    /\ display = "error"

====
